---- MODULE Spec2Model ----
(***************************************************************************)
(* Model of generate_icons.py: create_icon(size, filename) renders a       *)
(* square placeholder icon, saves it as a PNG and prints a progress line;  *)
(* main() calls it for each entry of a fixed table and prints a summary.   *)
(*                                                                         *)
(* Spec      is a run of the script (main), possibly repeated.             *)
(* SpecIcon  is one call create_icon(size, filename) with any size.        *)
(***************************************************************************)
EXTENDS Integers, Sequences, FiniteSets

VARIABLES
  entry,      \* which function was entered: "main" or "create_icon"
  pc,         \* the statement about to execute
  i,          \* main: number of table entries taken by the for loop
  size,       \* create_icon: argument size
  filename,   \* create_icon: argument filename (a path)
  img,        \* create_icon: local img (NoImage before Image.new)
  fs,         \* the filesystem: path -> file
  dirExists,  \* whether the directory icon_dir exists
  stdoutEncoding, \* the encoding of sys.stdout, set by the environment
  out,        \* standard output: the lines written by this run
  err,        \* the exception that ended the run ("" if none)
  run,        \* number of the current run of the script
  prevFs,     \* history: fs when the current run started
  log         \* history: the events of this run, in order

vars == <<entry, stdoutEncoding, pc, i, size, filename, img, fs, dirExists, out, err, run, prevFs, log>>

(***************************************************************************)
(* Bounds of the model.                                                    *)
(***************************************************************************)
MaxSize == 130
MaxNeg  == 3
MaxRuns == 2

(***************************************************************************)
(* main: the directory and the table of icons.                             *)
(***************************************************************************)
icon_dir == "LocationTracker/Assets.xcassets/AppIcon.appiconset"

Icon(s, f) == [size |-> s, filename |-> f]

iconsMissingEntry ==
  << Icon(40, "Icon-App-20x20@2x.png"),
     Icon(60, "Icon-App-20x20@3x.png"),
     Icon(58, "Icon-App-29x29@2x.png"),
     Icon(87, "Icon-App-29x29@3x.png"),
     Icon(80, "Icon-App-40x40@2x.png"),
     Icon(120, "Icon-App-40x40@3x.png"),
     Icon(180, "Icon-App-60x60@3x.png"),
     Icon(20, "Icon-App-20x20@1x.png"),
     Icon(40, "Icon-App-20x20@2x.png"),
     Icon(29, "Icon-App-29x29@1x.png"),
     Icon(58, "Icon-App-29x29@2x.png"),
     Icon(40, "Icon-App-40x40@1x.png"),
     Icon(80, "Icon-App-40x40@2x.png"),
     Icon(152, "Icon-App-76x76@2x.png"),
     Icon(167, "Icon-App-83.5x83.5@2x.png"),
     Icon(1024, "Icon-App-1024x1024@1x.png"),
     Icon(120, "Icon-App-40x40@3x.png") >>

iconsInconsistentDuplicate ==
  << Icon(40, "Icon-App-20x20@2x.png"),
     Icon(60, "Icon-App-20x20@3x.png"),
     Icon(58, "Icon-App-29x29@2x.png"),
     Icon(87, "Icon-App-29x29@3x.png"),
     Icon(80, "Icon-App-40x40@2x.png"),
     Icon(120, "Icon-App-40x40@3x.png"),
     Icon(120, "Icon-App-60x60@2x.png"),
     Icon(180, "Icon-App-60x60@3x.png"),
     Icon(20, "Icon-App-20x20@1x.png"),
     Icon(20, "Icon-App-20x20@2x.png"),
     Icon(29, "Icon-App-29x29@1x.png"),
     Icon(58, "Icon-App-29x29@2x.png"),
     Icon(40, "Icon-App-40x40@1x.png"),
     Icon(80, "Icon-App-40x40@2x.png"),
     Icon(152, "Icon-App-76x76@2x.png"),
     Icon(167, "Icon-App-83.5x83.5@2x.png"),
     Icon(1024, "Icon-App-1024x1024@1x.png") >>

icons ==
  << Icon(40, "Icon-App-20x20@2x.png"),
     Icon(60, "Icon-App-20x20@3x.png"),
     Icon(58, "Icon-App-29x29@2x.png"),
     Icon(87, "Icon-App-29x29@3x.png"),
     Icon(80, "Icon-App-40x40@2x.png"),
     Icon(120, "Icon-App-40x40@3x.png"),
     Icon(120, "Icon-App-60x60@2x.png"),
     Icon(180, "Icon-App-60x60@3x.png"),
     Icon(20, "Icon-App-20x20@1x.png"),
     Icon(40, "Icon-App-20x20@2x.png"),
     Icon(29, "Icon-App-29x29@1x.png"),
     Icon(58, "Icon-App-29x29@2x.png"),
     Icon(40, "Icon-App-40x40@1x.png"),
     Icon(80, "Icon-App-40x40@2x.png"),
     Icon(152, "Icon-App-76x76@2x.png"),
     Icon(167, "Icon-App-83.5x83.5@2x.png"),
     Icon(1024, "Icon-App-1024x1024@1x.png") >>

\* os.path.join(icon_dir, filename): the directory and the name, kept apart.
PathJoin(d, f) == <<d, f>>

NoPath == <<"", "">>

\* Every path the script can write.
Paths == { PathJoin(icon_dir, icons[k].filename) : k \in 1..Len(icons) }

(***************************************************************************)
(* create_icon: the raster and the drawing calls.                          *)
(***************************************************************************)
NoImage == [mode |-> "none", width |-> 0, height |-> 0, background |-> "", shapes |-> <<>>]

\* Image.new rejects a negative width or height and accepts zero.
ImageNewRaises(s) == s < 0

Image_newHalfHeight(s) ==
  [mode |-> "RGB", width |-> s, height |-> s \div 2, background |-> "#007AFF", shapes |-> <<>>]

Image_new(s) ==
  [mode |-> "RGB", width |-> s, height |-> s, background |-> "#007AFF", shapes |-> <<>>]

\* draw.ellipse / draw.polygon paint onto the raster and keep its dimensions.
Draw(im, kind, xy, fill) ==
  [im EXCEPT !.shapes = Append(@, [kind |-> kind, xy |-> xy, fill |-> fill])]

marginQuarter(s) == s \div 4

margin(s) == s \div 8

pin_size(s) == s \div 4

pin_x(s) == s \div 2

pin_yCentred(s) == s \div 2

pin_y(s) == s \div 2 + pin_size(s) \div 4

circle_size(s) == pin_size(s) \div 3

CircleBox(s) == <<margin(s), margin(s), s - margin(s), s - margin(s)>>

PinPoints(s) ==
  << pin_x(s), pin_y(s) - pin_size(s) \div 2,
     pin_x(s) - pin_size(s) \div 3, pin_y(s) + pin_size(s) \div 4,
     pin_x(s) + pin_size(s) \div 3, pin_y(s) + pin_size(s) \div 4 >>

BaseBox(s) ==
  << pin_x(s) - circle_size(s) \div 2,
     pin_y(s) + pin_size(s) \div 4 - circle_size(s) \div 2,
     pin_x(s) + circle_size(s) \div 2,
     pin_y(s) + pin_size(s) \div 4 + circle_size(s) \div 2 >>

\* The raster create_icon has built when it reaches img.save.
Rendered(s) ==
  Draw(Draw(Draw(Image_new(s), "ellipse", CircleBox(s), "white"),
            "polygon", PinPoints(s), "#007AFF"),
       "ellipse", BaseBox(s), "#007AFF")

(***************************************************************************)
(* img.save(filename, 'PNG'): the encoding and the file.                   *)
(***************************************************************************)
\* A PNG holds the dimensions and the pixels; nothing of the run.
PNGEncode(im) ==
  [format |-> "PNG", width |-> im.width, height |-> im.height,
   background |-> im.background, shapes |-> im.shapes]

Absent == [exists |-> FALSE, data |-> <<>>]

\* Opening for writing creates or empties the file.
Truncate(f, path) == [f EXCEPT ![path] = [exists |-> TRUE, data |-> <<>>]]

WriteFileAppend(f, path, data) ==
  [f EXCEPT ![path] = [exists |-> TRUE, data |-> Append(@.data, data)]]

WriteFile(f, path, data) ==
  [f EXCEPT ![path] = [exists |-> TRUE, data |-> <<data>>]]

\* A file written whole by img.save.
SavedFile(s) == [exists |-> TRUE, data |-> <<PNGEncode(Rendered(s))>>]

\* What a failure after the file was opened leaves behind: the emptied file,
\* or nothing when save removes the file it had just created.
LeftAfterOpen(f, path) ==
  IF f[path].exists THEN {"truncated"} ELSE {"truncated", "none"}

\* The outcomes of img.save: the exception ("" if none) and the effect on fs.
SaveOutcomes(im, f, path, direxists) ==
  IF ~direxists
    THEN { [err |-> "FileNotFoundError", effect |-> "none"] }
    ELSE { [err |-> "PermissionError", effect |-> "none"] }
         \cup
         (IF im.width = 0 \/ im.height = 0
            THEN { [err |-> "SystemError", effect |-> e] : e \in LeftAfterOpen(f, path) }
            ELSE { [err |-> "", effect |-> "written"] }
                 \cup { [err |-> "OSError", effect |-> e] : e \in LeftAfterOpen(f, path) })

\* A line of standard output: the code point of a leading character outside
\* ASCII (0 if none), then the text; the fields formatted into that text.
\* print(f"Created {filename} ({size}x{size})")
ProgressLine(path, s) ==
  [lead |-> 0, text |-> "Created {filename} ({size}x{size})",
   filename |-> path, width |-> s, height |-> s]

TextLine(c, t) == [lead |-> c, text |-> t, filename |-> NoPath, width |-> 0, height |-> 0]

\* print("\\n" + U+2705 + " All app icons generated successfully!") writes an
\* empty line and then the message; the second print writes one line that
\* starts with U+1F4F1.
SuccessLines ==
  << TextLine(0, ""),
     TextLine(9989, " All app icons generated successfully!") >>

CriticalLines ==
  << TextLine(128241, " The critical 120x120 icon (Icon-App-60x60@2x.png) has been created!") >>

SummaryLines == SuccessLines \o CriticalLines

\* sys.stdout encodes what print writes; an encoding that lacks a character
\* makes print raise UnicodeEncodeError before anything of that call is written.
Encodings == {"utf-8", "ascii", "latin-1"}

CanEncode(enc, c) == c < 128 \/ (enc = "latin-1" /\ c < 256) \/ enc = "utf-8"

Encodable(enc, lines) == \A n \in 1..Len(lines) : CanEncode(enc, lines[n].lead)

Event(ev, k, path, s) == [ev |-> ev, k |-> k, path |-> path, size |-> s]

(***************************************************************************)
(* Control flow.                                                           *)
(***************************************************************************)
\* The statements of create_icon, in order.
BodyPrintFirst == <<"new", "circle", "pin", "base", "print", "save">>

Body == <<"new", "circle", "pin", "base", "save", "print">>

After(p) ==
  LET k == CHOOSE n \in 1..Len(Body) : Body[n] = p
  IN  IF k < Len(Body) THEN Body[k + 1] ELSE "return"

\* No statement catches an exception: it ends the run.
RaiseSwallowed(e) == pc' = "return" /\ err' = err

Raise(e) == pc' = "failed" /\ err' = e

(***************************************************************************)
(* Initial states.                                                         *)
(***************************************************************************)
EmptyDir == [p \in Paths |-> Absent]

\* The directory after an earlier complete run.
PriorRun ==
  [p \in Paths |->
     LET k == CHOOSE n \in 1..Len(icons) :
                 /\ PathJoin(icon_dir, icons[n].filename) = p
                 /\ \A m \in (n + 1)..Len(icons) : PathJoin(icon_dir, icons[m].filename) # p
     IN  SavedFile(icons[k].size)]

\* The directory holding older icons of another size under every name.
StaleDir == [p \in Paths |-> SavedFile(16)]

\* The directory after an earlier run that stopped early.
PartialDir ==
  [p \in Paths |->
     IF \E n \in 1..5 : PathJoin(icon_dir, icons[n].filename) = p
       THEN PriorRun[p] ELSE Absent]

DirStates(direxists) ==
  IF direxists THEN {EmptyDir, PriorRun, StaleDir, PartialDir} ELSE {EmptyDir}

Init ==
  /\ entry = "main"
  /\ pc = "loop"
  /\ i = 0
  /\ size = 0
  /\ filename = NoPath
  /\ img = NoImage
  /\ dirExists \in BOOLEAN
  /\ stdoutEncoding \in Encodings
  /\ fs \in DirStates(dirExists)
  /\ prevFs = fs
  /\ out = <<>>
  /\ err = ""
  /\ run = 1
  /\ log = <<>>

TableSizes == { icons[k].size : k \in 1..Len(icons) }

CallSizes == ((0 - MaxNeg)..MaxSize) \cup TableSizes

CallPaths == { PathJoin(icon_dir, "Icon-App-60x60@2x.png"),
               PathJoin(icon_dir, "Icon-App-20x20@1x.png") }

InitIcon ==
  /\ entry = "create_icon"
  /\ pc = Body[1]
  /\ i = 0
  /\ size \in CallSizes
  /\ filename \in CallPaths
  /\ img = NoImage
  /\ dirExists \in BOOLEAN
  /\ stdoutEncoding \in Encodings
  /\ fs \in DirStates(dirExists)
  /\ prevFs = fs
  /\ out = <<>>
  /\ err = ""
  /\ run = 1
  /\ log = <<>>

(***************************************************************************)
(* Actions.                                                                *)
(***************************************************************************)
\* for size, filename in icons: filepath = join(...); create_icon(size, filepath)
ForNext ==
  /\ pc = "loop"
  /\ i < Len(icons)
  /\ i' = i + 1
  /\ size' = icons[i + 1].size
  /\ filename' = PathJoin(icon_dir, icons[i + 1].filename)
  /\ img' = NoImage
  /\ pc' = Body[1]
  /\ UNCHANGED <<entry, stdoutEncoding, fs, dirExists, out, err, run, prevFs, log>>

\* img = Image.new('RGB', (size, size), color='#007AFF'); draw = ImageDraw.Draw(img)
NewImage ==
  /\ pc = "new"
  /\ IF ImageNewRaises(size)
       THEN /\ Raise("ValueError")
            /\ log' = Append(log, Event("error", i, filename, size))
            /\ img' = img
       ELSE /\ img' = Image_new(size)
            /\ log' = Append(log, Event("render", i, filename, size))
            /\ pc' = After(pc)
            /\ err' = err
  /\ UNCHANGED <<entry, stdoutEncoding, i, size, filename, fs, dirExists, out, run, prevFs>>

CircleSaving ==
  /\ pc = "circle"
  /\ img' = Draw(img, "ellipse", CircleBox(size), "white")
  /\ fs' = WriteFile(fs, filename, PNGEncode(img'))
  /\ pc' = After(pc)
  /\ UNCHANGED <<entry, stdoutEncoding, i, size, filename, dirExists, out, err, run, prevFs, log>>

\* draw.ellipse([margin, margin, size-margin, size-margin], fill='white')
Circle ==
  /\ pc = "circle"
  /\ img' = Draw(img, "ellipse", CircleBox(size), "white")
  /\ pc' = After(pc)
  /\ UNCHANGED <<entry, stdoutEncoding, i, size, filename, fs, dirExists, out, err, run, prevFs, log>>

\* draw.polygon(points, fill='#007AFF')
Pin ==
  /\ pc = "pin"
  /\ img' = Draw(img, "polygon", PinPoints(size), "#007AFF")
  /\ pc' = After(pc)
  /\ UNCHANGED <<entry, stdoutEncoding, i, size, filename, fs, dirExists, out, err, run, prevFs, log>>

\* draw.ellipse([...], fill='#007AFF'): the small circle at the bottom
Base ==
  /\ pc = "base"
  /\ img' = Draw(img, "ellipse", BaseBox(size), "#007AFF")
  /\ pc' = After(pc)
  /\ UNCHANGED <<entry, stdoutEncoding, i, size, filename, fs, dirExists, out, err, run, prevFs, log>>

\* img.save(filename, 'PNG')
Save ==
  /\ pc = "save"
  /\ \E o \in SaveOutcomes(img, fs, filename, dirExists) :
       IF o.err = ""
         THEN /\ fs' = WriteFile(fs, filename, PNGEncode(img))
              /\ log' = Append(log, Event("write", i, filename, img.width))
              /\ pc' = After(pc)
              /\ err' = err
         ELSE /\ fs' = IF o.effect = "truncated" THEN Truncate(fs, filename) ELSE fs
              /\ log' = Append(log, Event("error", i, filename, size))
              /\ Raise(o.err)
  /\ UNCHANGED <<entry, stdoutEncoding, i, size, filename, img, dirExists, out, run, prevFs>>

\* print(f"Created {filename} ({size}x{size})")
PrintLine ==
  /\ pc = "print"
  /\ out' = Append(out, ProgressLine(filename, size))
  /\ log' = Append(log, Event("line", i, filename, size))
  /\ pc' = After(pc)
  /\ UNCHANGED <<entry, stdoutEncoding, i, size, filename, img, fs, dirExists, err, run, prevFs>>

\* create_icon returns: to main's loop, or to whoever called it.
Return ==
  /\ pc = "return"
  /\ pc' = IF entry = "main" THEN "loop" ELSE "done"
  /\ UNCHANGED <<entry, stdoutEncoding, i, size, filename, img, fs, dirExists, out, err, run, prevFs, log>>

\* The first closing print of main, after the loop.
Summary ==
  /\ pc = "loop"
  /\ i = Len(icons)
  /\ IF Encodable(stdoutEncoding, SuccessLines)
       THEN /\ out' = out \o SuccessLines
            /\ log' = Append(log, Event("summary", 0, NoPath, 0))
            /\ pc' = "critical"
            /\ err' = err
       ELSE /\ out' = out
            /\ log' = Append(log, Event("print_error", 0, NoPath, 0))
            /\ Raise("UnicodeEncodeError")
  /\ UNCHANGED <<entry, stdoutEncoding, i, size, filename, img, fs, dirExists, run, prevFs>>

\* The second closing print of main.
Critical ==
  /\ pc = "critical"
  /\ IF Encodable(stdoutEncoding, CriticalLines)
       THEN /\ out' = out \o CriticalLines
            /\ log' = Append(log, Event("critical", 0, NoPath, 0))
            /\ pc' = "done"
            /\ err' = err
       ELSE /\ out' = out
            /\ log' = Append(log, Event("print_error", 0, NoPath, 0))
            /\ Raise("UnicodeEncodeError")
  /\ UNCHANGED <<entry, stdoutEncoding, i, size, filename, img, fs, dirExists, run, prevFs>>

\* The script is started again after a complete run.
Rerun ==
  /\ pc = "done"
  /\ entry = "main"
  /\ run < MaxRuns
  /\ run' = run + 1
  /\ prevFs' = fs
  /\ pc' = "loop"
  /\ i' = 0
  /\ size' = 0
  /\ filename' = NoPath
  /\ img' = NoImage
  /\ out' = <<>>
  /\ log' = <<>>
  /\ UNCHANGED <<entry, stdoutEncoding, fs, dirExists, err>>

Next ==
  \/ ForNext
  \/ NewImage
  \/ Circle
  \/ Pin
  \/ Base
  \/ Save
  \/ PrintLine
  \/ Return
  \/ Summary
  \/ Critical
  \/ Rerun

Spec == Init /\ [][Next]_vars

NextIcon ==
  \/ NewImage
  \/ Circle
  \/ Pin
  \/ Base
  \/ Save
  \/ PrintLine
  \/ Return

SpecIcon == InitIcon /\ [][NextIcon]_vars

(***************************************************************************)
(* Helpers of the properties.                                              *)
(***************************************************************************)
IsPrefix(a, b) == Len(a) <= Len(b) /\ \A n \in 1..Len(a) : a[n] = b[n]

EventsOf(kind) == { n \in 1..Len(log) : log[n].ev = kind }

NotError(e) == e.ev \notin {"error", "print_error"}

EntryPath(k) == PathJoin(icon_dir, icons[k].filename)

\* The events of a complete run: per entry its rendering, its write, its line.
RECURSIVE ExpectedUpTo(_)
ExpectedUpTo(n) ==
  IF n = 0 THEN <<>>
  ELSE ExpectedUpTo(n - 1) \o
       << Event("render", n, EntryPath(n), icons[n].size),
          Event("write", n, EntryPath(n), icons[n].size),
          Event("line", n, EntryPath(n), icons[n].size) >>

ExpectedLog ==
  ExpectedUpTo(Len(icons)) \o
  << Event("summary", 0, NoPath, 0), Event("critical", 0, NoPath, 0) >>

\* The table of file names and pixel sizes of the specification.
SizeTable ==
  << Icon(20, "Icon-App-20x20@1x.png"),
     Icon(40, "Icon-App-20x20@2x.png"),
     Icon(60, "Icon-App-20x20@3x.png"),
     Icon(29, "Icon-App-29x29@1x.png"),
     Icon(58, "Icon-App-29x29@2x.png"),
     Icon(87, "Icon-App-29x29@3x.png"),
     Icon(40, "Icon-App-40x40@1x.png"),
     Icon(80, "Icon-App-40x40@2x.png"),
     Icon(120, "Icon-App-40x40@3x.png"),
     Icon(120, "Icon-App-60x60@2x.png"),
     Icon(180, "Icon-App-60x60@3x.png"),
     Icon(152, "Icon-App-76x76@2x.png"),
     Icon(167, "Icon-App-83.5x83.5@2x.png"),
     Icon(1024, "Icon-App-1024x1024@1x.png") >>

HoldsImageOfSize(p, s) ==
  /\ p \in DOMAIN fs
  /\ fs[p].exists
  /\ Len(fs[p].data) = 1
  /\ fs[p].data[1].format = "PNG"
  /\ fs[p].data[1].width = s
  /\ fs[p].data[1].height = s

(***************************************************************************)
(* C1. Completeness: after a run of main in which every write succeeded,   *)
(* each of the 14 distinct file names of the size table exists in the      *)
(* target directory and holds an image of exactly the size the table gives.*)
(***************************************************************************)
C1_Completeness ==
  (entry = "main" /\ (pc = "done" \/ Cardinality(EventsOf("write")) = 17)) =>
     /\ Cardinality({ SizeTable[k].filename : k \in 1..Len(SizeTable) }) = 14
     /\ \A k \in 1..Len(SizeTable) :
          HoldsImageOfSize(PathJoin(icon_dir, SizeTable[k].filename), SizeTable[k].size)

C1_Witness ==
  /\ entry = "main" /\ pc = "done" /\ run = 1
  /\ prevFs = EmptyDir
  /\ HoldsImageOfSize(PathJoin(icon_dir, "Icon-App-60x60@2x.png"), 120)

(***************************************************************************)
(* C2. Abort on first write failure: when the write of entry k fails, the  *)
(* run ends there in the failed state: nothing follows the failure, no     *)
(* later entry is rendered or written, the output holds exactly the        *)
(* progress lines of the entries before k and no summary.                  *)
(***************************************************************************)
C2_AbortOnWriteFailure ==
  \A p \in EventsOf("error") :
    LET k == log[p].k IN
      /\ p = Len(log)
      /\ pc = "failed"
      /\ err # ""
      /\ i = k
      /\ \A q \in 1..Len(log) :
           /\ log[q].ev # "summary"
           /\ log[q].k <= k
           /\ log[q].ev \in {"write", "line"} => log[q].k < k
      /\ Len(out) = k - 1
      /\ \A j \in 1..Len(out) : out[j] = ProgressLine(EntryPath(j), icons[j].size)

C2_Witness ==
  /\ entry = "main" /\ pc = "failed" /\ i = 7
  /\ err \in {"PermissionError", "OSError"}
  /\ Len(out) = 6
  /\ log[Len(log)] = Event("error", 7, EntryPath(7), 120)

(***************************************************************************)
(* C3. Invalid size is rejected: for every size <= 0 create_icon fails     *)
(* with an invalid-size error, builds no raster and leaves no output file; *)
(* for every size > 0 the rendering succeeds.                              *)
(***************************************************************************)
C3_InvalidSizeRejected ==
  /\ size <= 0 =>
       /\ img = NoImage
       /\ fs = prevFs
       /\ pc \in {"new", "failed"}
       /\ pc = "failed" => err = "ValueError"
  /\ size > 0 =>
       (pc = "failed" => (Len(img.shapes) = 3 /\ err # "ValueError"))

(***************************************************************************)
(* C4. Exact raster size: for every size s > 0 the raster is s wide and s  *)
(* high from its creation to its being saved, and the saved image has      *)
(* those dimensions.                                                       *)
(***************************************************************************)
C4_ExactRasterSize ==
  size > 0 =>
    /\ img # NoImage => (img.width = size /\ img.height = size)
    /\ EventsOf("write") # {} => HoldsImageOfSize(filename, size)

C4_Witness ==
  /\ size = 120 /\ pc = "return"
  /\ Len(img.shapes) = 3
  /\ img.width = 120 /\ img.height = 120
  /\ HoldsImageOfSize(filename, 120)

(***************************************************************************)
(* C5. Idempotence of the batch: a complete run that follows a complete    *)
(* run leaves every file with the content the earlier run left.            *)
(***************************************************************************)
C5_Idempotence ==
  (entry = "main" /\ pc = "done" /\ run >= 2) => fs = prevFs

C5_Witness ==
  /\ entry = "main" /\ pc = "done" /\ run = 2
  /\ \A p \in Paths : fs[p].exists /\ Len(fs[p].data) = 1

(***************************************************************************)
(* C6 as stated. Renderer purity: no step of create_icon changes the       *)
(* filesystem or the emitted output.                                       *)
(***************************************************************************)
InCreateIcon == pc \in { Body[n] : n \in 1..Len(Body) }

C6_RendererPure_Original ==
  [][InCreateIcon => (fs' = fs /\ out' = out)]_vars

(***************************************************************************)
(* C6 amended. The drawing steps of create_icon leave the filesystem and   *)
(* the output unchanged; the file is changed only by create_icon's save    *)
(* step and a progress line is emitted only by its print step.             *)
(***************************************************************************)
C6_DrawingPure ==
  [][ /\ pc \in {"new", "circle", "pin", "base"} => (fs' = fs /\ out' = out)
      /\ fs' # fs => pc = "save"
      /\ (Len(out') > Len(out) /\ out'[Len(out')].filename # NoPath) => pc = "print"
      /\ pc = "loop" => fs' = fs ]_vars

C6_Witness ==
  /\ entry = "main" /\ pc = "return" /\ i = 1
  /\ prevFs = EmptyDir
  /\ HoldsImageOfSize(filename, size)
  /\ out = << ProgressLine(filename, size) >>

(***************************************************************************)
(* C7. Sequential ordering: entries are processed in table order; for each *)
(* entry the rendering, then the write, then the progress line; the next   *)
(* entry begins after that line; the summary is emitted once, after the    *)
(* progress line of the 17th entry.                                        *)
(***************************************************************************)
C7_SequentialOrdering ==
  entry = "main" =>
    /\ Len(icons) = 17
    /\ IsPrefix(SelectSeq(log, NotError), ExpectedLog)
    /\ Len(out) = Cardinality(EventsOf("line"))
                   + Len(SuccessLines) * Cardinality(EventsOf("summary"))
                   + Len(CriticalLines) * Cardinality(EventsOf("critical"))
    /\ Cardinality(EventsOf("summary")) <= 1
    /\ pc = "done" => SubSeq(out, Len(out) - Len(SummaryLines) + 1, Len(out)) = SummaryLines
    /\ \A n \in EventsOf("line") :
         out[Cardinality({ m \in EventsOf("line") : m <= n })]
           = ProgressLine(log[n].path, log[n].size)
    /\ pc = "done" => log = ExpectedLog

C7_Witness ==
  /\ entry = "main" /\ pc = "done"
  /\ log = ExpectedLog
  /\ Len(log) = 53
  /\ log[51] = Event("line", 17, EntryPath(17), 1024)

(***************************************************************************)
(* C8. Circle geometry: for every size s > 0 the white circle's bounding   *)
(* box runs from s // 8 to s - s // 8 on both axes: inset s // 8 on every  *)
(* edge, diameter s - 2*(s // 8); for s = 120 it spans 15..105.            *)
(***************************************************************************)
C8_CircleGeometry ==
  (size > 0 /\ Len(img.shapes) >= 1) =>
    LET c == img.shapes[1] IN
      /\ c.kind = "ellipse" /\ c.fill = "white"
      /\ c.xy[1] = size \div 8 /\ c.xy[2] = size \div 8
      /\ size - c.xy[3] = size \div 8 /\ size - c.xy[4] = size \div 8
      /\ c.xy[3] - c.xy[1] = size - 2 * (size \div 8)
      /\ c.xy[4] - c.xy[2] = size - 2 * (size \div 8)
      /\ size = 120 => c.xy = <<15, 15, 105, 105>>

C8_Witness ==
  /\ size = 120 /\ pc = "save"
  /\ img.shapes[1].xy = <<15, 15, 105, 105>>

(***************************************************************************)
(* C9 as stated. Pin apex position: for size 120 the top vertex of the     *)
(* triangle is at (60, 45); with pinSize = s // 4 and centerY the centre   *)
(* of the canvas, the apex is at (s // 2, centerY - pinSize // 2), the     *)
(* bottom vertices at (s // 2 -/+ pinSize // 3, centerY + pinSize // 4)    *)
(* and the base circle has diameter pinSize // 3.                          *)
(***************************************************************************)
C9_PinGeometry_Original ==
  (size > 0 /\ Len(img.shapes) >= 3) =>
    LET ps == size \div 4
        cx == size \div 2
        cy == size \div 2
        t  == img.shapes[2].xy
        b  == img.shapes[3].xy
    IN  /\ size = 120 => (t[1] = 60 /\ t[2] = 45)
        /\ t = <<cx, cy - ps \div 2,
                 cx - ps \div 3, cy + ps \div 4,
                 cx + ps \div 3, cy + ps \div 4>>
        /\ b[3] - b[1] = ps \div 3

(***************************************************************************)
(* C9 amended. For size 120 the top vertex is at (60, 52). With            *)
(* pinSize = s // 4 and centerY = s // 2 + pinSize // 4, the apex is at    *)
(* (s // 2, centerY - pinSize // 2), the bottom vertices are at            *)
(* (s // 2 -/+ pinSize // 3, centerY + pinSize // 4), and the base circle  *)
(* is centred at (s // 2, centerY + pinSize // 4) and reaches              *)
(* (pinSize // 3) // 2 to each side of it.                                 *)
(***************************************************************************)
C9_PinGeometry ==
  (size > 0 /\ Len(img.shapes) >= 3) =>
    LET ps == size \div 4
        cx == size \div 2
        cy == size \div 2 + ps \div 4
        r  == (ps \div 3) \div 2
        t  == img.shapes[2]
        b  == img.shapes[3]
    IN  /\ t.kind = "polygon" /\ b.kind = "ellipse"
        /\ size = 120 => (t.xy[1] = 60 /\ t.xy[2] = 52)
        /\ t.xy = <<cx, cy - ps \div 2,
                    cx - ps \div 3, cy + ps \div 4,
                    cx + ps \div 3, cy + ps \div 4>>
        /\ b.xy = <<cx - r, cy + ps \div 4 - r, cx + r, cy + ps \div 4 + r>>

C9_Witness ==
  /\ size = 120 /\ pc = "save"
  /\ img.shapes[2].xy = <<60, 52, 50, 74, 70, 74>>
  /\ img.shapes[3].xy = <<55, 69, 65, 79>>

(***************************************************************************)
(* C10. Consistent duplicates: the table has 17 entries and 14 distinct    *)
(* file names; the three names that occur twice have the same size at each *)
(* occurrence, so a file written during a run is never written again with  *)
(* an image of another size, and a complete run performs 17 writes.        *)
(***************************************************************************)
C10_ConsistentDuplicates ==
  entry = "main" =>
    /\ Len(icons) = 17
    /\ Cardinality({ icons[k].filename : k \in 1..Len(icons) }) = 14
    /\ { icons[k].filename : k \in { n \in 1..Len(icons) :
           \E m \in 1..Len(icons) : m # n /\ icons[m].filename = icons[n].filename } }
         = {"Icon-App-20x20@2x.png", "Icon-App-29x29@2x.png", "Icon-App-40x40@2x.png"}
    /\ \A p, q \in EventsOf("write") : log[p].path = log[q].path => log[p].size = log[q].size
    /\ \A p \in EventsOf("write") :
         \/ fs[log[p].path].data = <<>>
         \/ HoldsImageOfSize(log[p].path, log[p].size)
    /\ pc = "done" => Cardinality(EventsOf("write")) = 17

C10_Witness ==
  /\ entry = "main" /\ pc = "done"
  /\ Cardinality(EventsOf("write")) = 17
  /\ log[2] = Event("write", 1, EntryPath(1), 40)
  /\ log[29] = Event("write", 10, EntryPath(1), 40)

====
